---- MODULE Spec2Model ----
(***************************************************************************)
(* Model of train_x_formers.py: the module-level run directory resolution  *)
(* and train_model, the epoch / phase / batch loop with its learning-rate  *)
(* schedule, checkpoint save and load, and metric emission.                *)
(*                                                                         *)
(* Abstractions.  Tensors are opaque: the model's state_dict is the log of *)
(* the optimizer steps applied to it (epoch, learning rate, optimizer step *)
(* number), so two parameter states are equal iff they received the same   *)
(* updates.  Learning rates are integers in units of 1e-6.  A batch's loss *)
(* and number of correct predictions are inputs drawn from small sets.     *)
(* optim.lr_scheduler.StepLR and optimizer.load_state_dict are the         *)
(* library's: StepLR is a counter, 0 after construction, that multiplies   *)
(* the optimizer's current rate by gamma when it reaches a multiple of     *)
(* step_size; neither torch.save nor load touches the scheduler.           *)
(***************************************************************************)
EXTENDS Integers, Sequences, FiniteSets, TLC

\* ---- bounds of the model ----
MaxEpochs == 11      \* largest nEpochs explored
MaxSave   == 3       \* largest snapshot interval explored
MaxTest   == 2       \* largest nTestInterval explored
MaxRuns   == 11      \* run_0 .. run_<MaxRuns - 1> may exist at start
TrainSize == 3       \* len(train dataset)
ValSize   == 2       \* len(val dataset)
TestSize  == 1       \* len(test dataset)
BatchSize == 2       \* batch_size, scaled down
MaxLoss   == 1       \* largest per-batch criterion value explored

\* ---- program constants ----
lr        == 1000    \* 1e-3, in units of 1e-6
step_size == 10
gamma_inv == 10      \* gamma = 0.1 = 1 / gamma_inv

VARIABLES
  \* module-level configuration
  num_epochs, save_epoch, test_interval, useTest, resume_epoch, run_id,
  \* filesystem
  runs,            \* ids i for which <root>/run/run_<i> exists
  files,           \* <<run id, epoch in the file name>> -> checkpoint contents
  \* train_model locals
  pc, checkpoint, params, optimizer, scheduler, mode, hasGrad,
  epoch, phase, i, running_loss, running_corrects, epoch_loss, epoch_acc,
  writer,          \* the add_scalar calls made on the SummaryWriter, in order
  \* across invocations
  relaunched,      \* the script has been started a second time
  uninterrupted    \* state_dict at the end of a completed run from scratch

vars == <<num_epochs, save_epoch, test_interval, useTest, resume_epoch, run_id,
          runs, files, pc, checkpoint, params, optimizer, scheduler, mode,
          hasGrad, epoch, phase, i, running_loss, running_corrects,
          epoch_loss, epoch_acc, writer, relaunched, uninterrupted>>

config == <<num_epochs, save_epoch, test_interval, useTest>>

\* ---- str(), sorted() and int() on run directory names ----
RECURSIVE Str(_)
Str(n) == IF n < 10 THEN <<n>> ELSE Append(Str(n \div 10), n % 10)

RECURSIVE ParseInt(_)
ParseInt(s) == IF Len(s) = 0 THEN 0
          ELSE 10 * ParseInt(SubSeq(s, 1, Len(s) - 1)) + s[Len(s)]

RECURSIVE StrLess(_, _)
StrLess(a, b) ==
  IF Len(a) = 0 THEN Len(b) > 0
  ELSE IF Len(b) = 0 THEN FALSE
  ELSE IF a[1] # b[1] THEN a[1] < b[1]
  ELSE StrLess(Tail(a), Tail(b))

\* glob('run/run_*'): the names, each reduced to what follows 'run_'
Glob(dirs) == {Str(n) : n \in dirs}

\* sorted(names)[-1]
SortedLast(names) ==
  CHOOSE d \in names : \A e \in names : e = d \/ StrLess(e, d)

ResolveRunId(dirs, resume) ==
  IF resume # 0
  THEN IF dirs # {} THEN ParseInt(SortedLast(Glob(dirs))) ELSE 0
  ELSE IF dirs # {} THEN ParseInt(SortedLast(Glob(dirs))) + 1 ELSE 0

\* ---- optimizer, scheduler, data loaders ----
NewOptimizer == [lr |-> lr, step |-> 0]

NewScheduler == [last_epoch |-> 0]

\* scheduler.step(): the new counter and the new optimizer learning rate
SchedulerStep(sch, opt) ==
  LET n == sch.last_epoch + 1 IN
  <<[sch EXCEPT !.last_epoch = n],
    IF n % step_size = 0 THEN [opt EXCEPT !.lr = opt.lr \div gamma_inv] ELSE opt>>

SizeOf(ph) == CASE ph = "train" -> TrainSize
                [] ph = "val"   -> ValSize
                [] ph = "test"  -> TestSize

\* number of batches a DataLoader yields (drop_last is False)
NumBatches(n) == (n + BatchSize - 1) \div BatchSize

\* inputs.size(0) of batch number k (from 0)
BatchLen(n, k) == IF (k + 1) * BatchSize <= n THEN BatchSize ELSE n - k * BatchSize

Unset == << >>

Tag(split, what) == <<split, what>>

Scalars(split, step) ==
  <<[tag |-> Tag(split, "loss"), step |-> step],
    [tag |-> Tag(split, "acc"),  step |-> step]>>

SaveDue_first(e) == e % save_epoch = 0

\* line 237
SaveDue(e) == e % save_epoch = save_epoch - 1

TestDue_always(e) == e % test_interval = test_interval - 1

\* line 245
TestDue(e) == useTest /\ e % test_interval = test_interval - 1

\* ---- initial state: the script is about to be run ----
Init ==
  /\ num_epochs \in {1, MaxEpochs}
  /\ save_epoch \in 1..MaxSave
  /\ test_interval \in 1..MaxTest
  /\ useTest \in BOOLEAN
  /\ resume_epoch \in 0..num_epochs
  /\ \E n \in {0, 1, MaxRuns - 1, MaxRuns} : runs = 0..(n - 1)
  /\ files = << >>
  /\ run_id = 0
  /\ pc = "module"
  /\ checkpoint = Unset
  /\ params = << >>
  /\ optimizer = NewOptimizer
  /\ scheduler = NewScheduler
  /\ mode = "train"
  /\ hasGrad = FALSE
  /\ epoch = 0
  /\ phase = "train"
  /\ i = 0
  /\ running_loss = 0
  /\ running_corrects = 0
  /\ epoch_loss = Unset
  /\ epoch_acc = Unset
  /\ writer = << >>
  /\ relaunched = FALSE
  /\ uninterrupted = << >>

\* ---- module level: lines 42-49 ----
ResolveRun ==
  /\ pc = "module"
  /\ run_id' = ResolveRunId(runs, resume_epoch)
  /\ pc' = "build"
  /\ UNCHANGED <<config, resume_epoch, runs, files, checkpoint, params,
                 optimizer, scheduler, mode, hasGrad, epoch, phase, i,
                 running_loss, running_corrects, epoch_loss, epoch_acc,
                 writer, relaunched, uninterrupted>>

\* ---- train_model: model, optimizer and scheduler construction ----
BuildModel ==
  /\ pc = "build"
  /\ params' = << >>
  /\ optimizer' = NewOptimizer
  /\ scheduler' = NewScheduler
  /\ mode' = "train"
  /\ pc' = "load"
  /\ UNCHANGED <<config, resume_epoch, run_id, runs, files, checkpoint,
                 hasGrad, epoch, phase, i, running_loss, running_corrects,
                 epoch_loss, epoch_acc, writer, relaunched, uninterrupted>>

CkptKey(e) == <<run_id, e>>

ResumeFile_same == CkptKey(resume_epoch)

\* save_dir/models/<saveName>_epoch-<resume_epoch - 1>.pth.tar
ResumeFile == CkptKey(resume_epoch - 1)

\* resume_epoch == 0: nothing is loaded.  Otherwise torch.load of the file
\* for resume_epoch - 1, which raises when the file does not exist.
LoadCheckpoint ==
  /\ pc = "load"
  /\ IF resume_epoch = 0
     THEN /\ pc' = "open"
          /\ UNCHANGED <<checkpoint, params, optimizer>>
     ELSE IF ResumeFile \in DOMAIN files
     THEN /\ checkpoint' = <<files[ResumeFile]>>
          /\ params' = files[ResumeFile].state_dict
          /\ optimizer' = files[ResumeFile].opt_dict
          /\ pc' = "open"
     ELSE /\ pc' = "aborted"
          /\ UNCHANGED <<checkpoint, params, optimizer>>
  /\ UNCHANGED <<config, resume_epoch, run_id, runs, files, scheduler, mode,
                 hasGrad, epoch, phase, i, running_loss, running_corrects,
                 epoch_loss, epoch_acc, writer, relaunched, uninterrupted>>

\* SummaryWriter(log_dir) creates the run directory; the data loaders are
\* built and the for loop's range starts at resume_epoch.
OpenWriter ==
  /\ pc = "open"
  /\ runs' = runs \cup {run_id}
  /\ writer' = << >>
  /\ epoch' = resume_epoch
  /\ pc' = "epoch"
  /\ UNCHANGED <<config, resume_epoch, run_id, files, checkpoint, params,
                 optimizer, scheduler, mode, hasGrad, phase, i, running_loss,
                 running_corrects, epoch_loss, epoch_acc, relaunched,
                 uninterrupted>>

\* ---- the epoch loop: for epoch in range(resume_epoch, num_epochs) ----
\* The loop's exit runs writer.close() and train_model returns.
InRange_off(e) == e <= num_epochs

\* membership of e in range(resume_epoch, num_epochs), e counting up from
\* resume_epoch
InRange(e) == e < num_epochs

EpochLoop ==
  /\ pc = "epoch"
  /\ IF InRange(epoch)
     THEN /\ pc' = "phase"
          /\ phase' = "train"
     ELSE /\ pc' = "done"
          /\ UNCHANGED phase
  /\ epoch_loss' = Unset
  /\ epoch_acc' = Unset
  /\ UNCHANGED <<config, resume_epoch, run_id, runs, files, checkpoint,
                 params, optimizer, scheduler, mode, hasGrad, epoch, i,
                 running_loss, running_corrects, writer, relaunched,
                 uninterrupted>>

\* lines 185-198: reset the accumulators, step the scheduler in the train
\* phase, set the model's mode.  epoch_loss and epoch_acc of the previous
\* pass are dead here and are dropped.
StartPhase ==
  /\ pc = "phase"
  /\ running_loss' = 0
  /\ running_corrects' = 0
  /\ IF phase = "train"
     THEN /\ scheduler' = SchedulerStep(scheduler, optimizer)[1]
          /\ optimizer' = SchedulerStep(scheduler, optimizer)[2]
          /\ mode' = "train"
     ELSE /\ mode' = "eval"
          /\ UNCHANGED <<scheduler, optimizer>>
  /\ i' = 0
  /\ epoch_loss' = Unset
  /\ epoch_acc' = Unset
  /\ pc' = "batch"
  /\ UNCHANGED <<config, resume_epoch, run_id, runs, files, checkpoint,
                 params, hasGrad, epoch, phase, writer, relaunched,
                 uninterrupted>>

\* loss.backward(); optimizer.step(): one update of the parameters, logged
\* with the epoch, the learning rate and the optimizer's step number
OptimizerStep(p, opt, e) ==
  <<Append(p, [epoch |-> e, lr |-> opt.lr, step |-> opt.step + 1]),
    [opt EXCEPT !.step = opt.step + 1]>>

BatchUpdate_everyPhase(ph, p, opt, e) == OptimizerStep(p, opt, e)

\* what one batch does to the parameters and the optimizer in a trainval pass
BatchUpdate(ph, p, opt, e) ==
  IF ph = "train" THEN OptimizerStep(p, opt, e) ELSE <<p, opt>>

\* lines 200-221: one batch of the train or val loader
Batch ==
  /\ pc = "batch"
  /\ i < NumBatches(SizeOf(phase))
  /\ \E loss \in 0..MaxLoss, corrects \in 0..BatchLen(SizeOf(phase), i) :
       /\ running_loss' = running_loss + loss * BatchLen(SizeOf(phase), i)
       /\ running_corrects' = running_corrects + corrects
  /\ params' = BatchUpdate(phase, params, optimizer, epoch)[1]
  /\ optimizer' = BatchUpdate(phase, params, optimizer, epoch)[2]
  /\ hasGrad' = (phase = "train")      \* zero_grad(), then backward() if train
  /\ i' = i + 1
  /\ UNCHANGED <<config, resume_epoch, run_id, runs, files, pc, checkpoint,
                 scheduler, mode, epoch, phase, epoch_loss, epoch_acc, writer,
                 relaunched, uninterrupted>>

\* x / n, kept as a fraction
Div(x, n) == <<[num |-> x, den |-> n]>>

\* lines 223-235: the loader is exhausted; compute and emit the pass's metrics
EndPhase ==
  /\ pc = "batch"
  /\ i = NumBatches(SizeOf(phase))
  /\ epoch_loss' = Div(running_loss, SizeOf(phase))
  /\ epoch_acc' = Div(running_corrects, SizeOf(phase))
  /\ writer' = writer \o Scalars(phase, epoch)
  /\ IF phase = "train"
     THEN /\ phase' = "val"
          /\ pc' = "phase"
     ELSE /\ pc' = "save"
          /\ UNCHANGED phase
  /\ UNCHANGED <<config, resume_epoch, run_id, runs, files, checkpoint,
                 params, optimizer, scheduler, mode, hasGrad, epoch, i,
                 running_loss, running_corrects, relaunched, uninterrupted>>

CheckpointOf_sameEpoch(e, p, opt) ==
  [epoch |-> e, state_dict |-> p, opt_dict |-> opt]

\* the dict handed to torch.save at the end of epoch e
CheckpointOf(e, p, opt) ==
  [epoch |-> e + 1, state_dict |-> p, opt_dict |-> opt]

\* torch.save: create or overwrite
Write(fs, key, val) ==
  [k \in DOMAIN fs \cup {key} |-> IF k = key THEN val ELSE fs[k]]

\* lines 237-243
SaveCheckpoint ==
  /\ pc = "save"
  /\ IF SaveDue(epoch)
     THEN files' = Write(files, CkptKey(epoch),
                         CheckpointOf(epoch, params, optimizer))
     ELSE UNCHANGED files
  /\ epoch_loss' = Unset
  /\ epoch_acc' = Unset
  /\ pc' = "test"
  /\ UNCHANGED <<config, resume_epoch, run_id, runs, checkpoint, params,
                 optimizer, scheduler, mode, hasGrad, epoch, phase, i,
                 running_loss, running_corrects, writer, relaunched,
                 uninterrupted>>

TestReset_carry == [loss |-> running_loss, corrects |-> running_corrects]

\* lines 249-250: the accumulators at the start of the test pass
TestReset == [loss |-> 0, corrects |-> 0]

\* lines 245-250: enter the test pass, or go on to the next epoch
TestDecision ==
  /\ pc = "test"
  /\ IF TestDue(epoch)
     THEN /\ mode' = "eval"
          /\ running_loss' = TestReset.loss
          /\ running_corrects' = TestReset.corrects
          /\ i' = 0
          /\ phase' = "test"
          /\ pc' = "test_batch"
          /\ UNCHANGED epoch
     ELSE /\ epoch' = epoch + 1
          /\ pc' = "epoch"
          /\ UNCHANGED <<mode, running_loss, running_corrects, i, phase>>
  /\ UNCHANGED <<config, resume_epoch, run_id, runs, files, checkpoint,
                 params, optimizer, scheduler, hasGrad, epoch_loss, epoch_acc,
                 writer, relaunched, uninterrupted>>

\* what one batch of the test loader does to the parameters and the optimizer
TestUpdate(p, opt, e) == <<p, opt>>

\* lines 252-263: one batch of the test loader, under torch.no_grad()
TestBatch ==
  /\ pc = "test_batch"
  /\ i < NumBatches(TestSize)
  /\ \E loss \in 0..MaxLoss, corrects \in 0..BatchLen(TestSize, i) :
       /\ running_loss' = running_loss + loss * BatchLen(TestSize, i)
       /\ running_corrects' = running_corrects + corrects
  /\ params' = TestUpdate(params, optimizer, epoch)[1]
  /\ optimizer' = TestUpdate(params, optimizer, epoch)[2]
  /\ i' = i + 1
  /\ UNCHANGED <<config, resume_epoch, run_id, runs, files, pc, checkpoint,
                 scheduler, mode, hasGrad, epoch, phase, epoch_loss,
                 epoch_acc, writer, relaunched, uninterrupted>>

\* lines 265-273
EndTest ==
  /\ pc = "test_batch"
  /\ i = NumBatches(TestSize)
  /\ epoch_loss' = Div(running_loss, TestSize)
  /\ epoch_acc' = Div(running_corrects, TestSize)
  /\ writer' = writer \o Scalars("test", epoch)
  /\ epoch' = epoch + 1
  /\ pc' = "epoch"
  /\ UNCHANGED <<config, resume_epoch, run_id, runs, files, checkpoint,
                 params, optimizer, scheduler, mode, hasGrad, phase, i,
                 running_loss, running_corrects, relaunched, uninterrupted>>

\* The script is started again with resume_epoch edited to a non-zero value
\* (line 22), after the previous process returned or died on the load.
\* The filesystem is what the previous process left.
Relaunch ==
  /\ pc \in {"done", "aborted"}
  /\ ~relaunched
  /\ relaunched' = TRUE
  /\ resume_epoch' \in 1..num_epochs
  /\ uninterrupted' = IF pc = "done" /\ resume_epoch = 0 THEN params ELSE << >>
  /\ run_id' = 0
  /\ pc' = "module"
  /\ checkpoint' = Unset
  /\ params' = << >>
  /\ optimizer' = NewOptimizer
  /\ scheduler' = NewScheduler
  /\ mode' = "train"
  /\ hasGrad' = FALSE
  /\ epoch' = 0
  /\ phase' = "train"
  /\ i' = 0
  /\ running_loss' = 0
  /\ running_corrects' = 0
  /\ epoch_loss' = Unset
  /\ epoch_acc' = Unset
  /\ writer' = << >>
  /\ UNCHANGED <<config, runs, files>>

\* one step of the running process
Step ==
  \/ ResolveRun
  \/ BuildModel
  \/ LoadCheckpoint
  \/ OpenWriter
  \/ EpochLoop
  \/ StartPhase
  \/ Batch
  \/ EndPhase
  \/ SaveCheckpoint
  \/ TestDecision
  \/ TestBatch
  \/ EndTest

Next ==
  \/ Step
  \/ Relaunch

Spec == Init /\ [][Next]_vars

\* a started process keeps running: nothing in the loop waits on anything
\* but its own data loaders
FairSpec == Spec /\ WF_vars(Step)


\* ======================= properties =======================

InLoop == pc \in {"epoch", "phase", "batch", "save", "test", "test_batch"}

IsPrefix(s, t) == Len(s) <= Len(t) /\ SubSeq(t, 1, Len(s)) = s

\* epoch E of the current invocation is past its checkpoint decision
PastSave(E) ==
  /\ InLoop \/ pc = "done"
  /\ resume_epoch <= E
  /\ E < epoch \/ (E = epoch /\ pc \in {"test", "test_batch"})

\* epoch E of the current invocation has run all of its steps
EpochOver(E) ==
  /\ InLoop \/ pc = "done"
  /\ resume_epoch <= E
  /\ E < epoch

\* C1: once epoch E of the run is past its checkpoint decision, the file
\* named for epoch E exists in the run directory iff E mod s = s - 1.
C1_CheckpointIffDue ==
  \A E \in 0..(num_epochs - 1) :
    PastSave(E) =>
      (<<run_id, E>> \in DOMAIN files <=> E % save_epoch = save_epoch - 1)

\* a run of more than two epochs from scratch with s = 2 has finished: the
\* file for epoch 1 exists, those for epochs 0 and 2 do not
C1_Witness ==
  /\ pc = "done" /\ resume_epoch = 0 /\ save_epoch = 2 /\ num_epochs > 2
  /\ <<run_id, 1>> \in DOMAIN files
  /\ <<run_id, 0>> \notin DOMAIN files
  /\ <<run_id, 2>> \notin DOMAIN files

NumScalars(split, what, E) ==
  Cardinality({k \in 1..Len(writer) :
                 writer[k] = [tag |-> <<split, what>>, step |-> E]})

\* C2: for every epoch E of the run, the test loss and the test accuracy
\* are each emitted at most once with step E, never when useTest is false
\* or E mod t # t - 1, and exactly once by the end of epoch E otherwise.
C2_TestEmissions ==
  \A E \in 0..(num_epochs - 1) : \A what \in {"loss", "acc"} :
    LET due == useTest /\ E % test_interval = test_interval - 1 IN
    /\ NumScalars("test", what, E) <= 1
    /\ ~due => NumScalars("test", what, E) = 0
    /\ EpochOver(E) => NumScalars("test", what, E) = (IF due THEN 1 ELSE 0)

\* with t = 2 and useTest, epochs 0 and 1 are over: one test emission for
\* epoch 1, none for epoch 0
C2_Witness ==
  /\ useTest /\ test_interval = 2 /\ EpochOver(1) /\ resume_epoch = 0
  /\ NumScalars("test", "loss", 1) = 1
  /\ NumScalars("test", "loss", 0) = 0

\* C3: a resumed run loads the file for resume_epoch - 1 of the resolved run
\* directory into model and optimizer before any training step and starts
\* at epoch resume_epoch; if the file is absent the run aborts with nothing
\* trained, emitted or changed; a run from scratch loads nothing and never
\* aborts.
C3_Resume ==
  /\ resume_epoch = 0 => checkpoint = Unset /\ pc # "aborted"
  /\ pc = "aborted" =>
       /\ resume_epoch # 0
       /\ <<run_id, resume_epoch - 1>> \notin DOMAIN files
       /\ checkpoint = Unset
       /\ writer = << >> /\ params = << >> /\ optimizer = NewOptimizer
  /\ (resume_epoch # 0 /\ (pc = "open" \/ InLoop \/ pc = "done")) =>
       /\ <<run_id, resume_epoch - 1>> \in DOMAIN files
       /\ checkpoint = <<files[<<run_id, resume_epoch - 1>>]>>
       /\ IsPrefix(checkpoint[1].state_dict, params)
       /\ pc = "open" => /\ params = checkpoint[1].state_dict
                         /\ optimizer = checkpoint[1].opt_dict
       /\ \A k \in 1..Len(params) :
            k > Len(checkpoint[1].state_dict) => params[k].epoch >= resume_epoch
       /\ Len(params) > Len(checkpoint[1].state_dict) =>
            params[Len(checkpoint[1].state_dict) + 1].epoch = resume_epoch
       /\ writer # << >> => writer[1].step = resume_epoch
  /\ InLoop => epoch >= resume_epoch

\* a run resumed at epoch 2 has loaded its checkpoint and trained a batch
C3_Witness ==
  /\ resume_epoch = 2 /\ pc = "batch" /\ phase = "train" /\ i = 1
  /\ epoch = 2 /\ checkpoint # Unset

\* C5 (as claimed): the run id is the largest existing id, plus one for a
\* run from scratch, and 0 when no run directory exists.
Largest(S) == CHOOSE m \in S : \A n \in S : n <= m

C5_RunIdIsMax ==
  pc = "build" =>
    run_id = IF runs = {} THEN 0
             ELSE IF resume_epoch = 0 THEN Largest(runs) + 1
             ELSE Largest(runs)

\* C6: no step of a val pass or of a test pass changes the model parameters
\* or the optimizer state.
C6_EvalFrame ==
  [][ ((pc \in {"phase", "batch"} /\ phase = "val") \/ pc \in {"test", "test_batch"})
        => UNCHANGED <<params, optimizer>> ]_vars

\* a test pass, after the val pass of a trained epoch, has consumed a batch
C6_Witness ==
  /\ pc = "test_batch" /\ i > 0 /\ params # << >> /\ hasGrad = FALSE

Consumed(n) == IF i * BatchSize <= n THEN i * BatchSize ELSE n

\* C7: each pass starts with zero accumulators and counts at most the
\* examples it has consumed, so an emitted accuracy is within [0, 1] and an
\* emitted average loss is >= 0.
C7_Metrics ==
  /\ (pc \in {"batch", "test_batch"} /\ i = 0) =>
       running_loss = 0 /\ running_corrects = 0
  /\ pc \in {"batch", "test_batch"} =>
       /\ 0 <= running_corrects /\ running_corrects <= Consumed(SizeOf(phase))
       /\ 0 <= running_loss
  /\ epoch_acc # Unset =>
       /\ epoch_acc[1].den > 0
       /\ 0 <= epoch_acc[1].num /\ epoch_acc[1].num <= epoch_acc[1].den
  /\ epoch_loss # Unset =>
       epoch_loss[1].den > 0 /\ epoch_loss[1].num >= 0

\* a test pass has just emitted, after a val pass in which every example
\* was predicted correctly: accuracy 1 again, not more
C7_Witness ==
  /\ pc = "epoch" /\ epoch > 0 /\ epoch_acc # Unset
  /\ epoch_acc[1].num = TestSize /\ epoch_acc[1].den = TestSize
  /\ writer[Len(writer)].tag = <<"test", "acc">>

\* the updates of epochs 0..N of a parameter log
UpTo(log, N) == SelectSeq(log, LAMBDA u : u.epoch <= N)

\* C4 (as claimed): at every epoch boundary of a run resumed from a
\* checkpoint that a run from scratch saved, the parameters are those the
\* run from scratch had at the same boundary: the same updates, with the
\* same learning rates and optimizer steps, for the same epochs.
C4_ResumeEquivalent ==
  (relaunched /\ resume_epoch # 0 /\ checkpoint # Unset
     /\ pc \in {"epoch", "done"}) =>
    params = UpTo(uninterrupted, epoch - 1)

ExpectedPair(split, E) ==
  <<[tag |-> <<split, "loss">>, step |-> E],
    [tag |-> <<split, "acc">>, step |-> E]>>

\* the add_scalar calls of the complete epochs from..(to - 1)
RECURSIVE ExpectedLog(_, _)
ExpectedLog(from, to) ==
  IF from >= to THEN << >>
  ELSE ExpectedLog(from, to - 1)
         \o ExpectedPair("train", to - 1) \o ExpectedPair("val", to - 1)
         \o (IF useTest /\ (to - 1) % test_interval = test_interval - 1
             THEN ExpectedPair("test", to - 1) ELSE << >>)

\* the add_scalar calls of the running epoch that precede the current step
ExpectedPartial ==
  IF pc \in {"save", "test", "test_batch"}
  THEN ExpectedPair("train", epoch) \o ExpectedPair("val", epoch)
  ELSE IF pc \in {"phase", "batch"} /\ phase = "val"
  THEN ExpectedPair("train", epoch)
  ELSE << >>

\* C8: the run executes epochs resume_epoch..num_epochs - 1 once each, in
\* order, and within an epoch train, val, checkpoint decision and optional
\* test follow one another: at every step the emissions made so far are
\* those of the complete earlier epochs, in order, followed by those of the
\* finished passes of the running epoch, and every started run ends, after
\* the last epoch with all of them made (or on the failed load).
C8_Order ==
  /\ InLoop => /\ resume_epoch <= epoch /\ epoch <= num_epochs
               /\ pc # "epoch" => epoch < num_epochs
               /\ writer = ExpectedLog(resume_epoch, epoch) \o ExpectedPartial
  /\ pc = "done" => /\ epoch = num_epochs
                    /\ writer = ExpectedLog(resume_epoch, num_epochs)

C8_Sequential ==
  /\ []C8_Order
  /\ (pc = "module") ~> (pc \in {"done", "aborted"})

\* a run of three or more epochs from scratch has ended with one train and
\* one val pair per epoch
C8_Witness ==
  /\ pc = "done" /\ resume_epoch = 0 /\ num_epochs >= 3
  /\ \A E \in 0..(num_epochs - 1) :
       NumScalars("train", "loss", E) = 1 /\ NumScalars("val", "acc", E) = 1

\* C9 (as claimed): a checkpoint's epoch field is the epoch in its file name.
C9_EpochFieldIsName ==
  \A key \in DOMAIN files : files[key].epoch = key[2]

\* C9 (amended): a checkpoint's epoch field is the epoch in its file name
\* plus one, the number of epochs completed.
C9_EpochFieldIsNext ==
  \A key \in DOMAIN files : files[key].epoch = key[2] + 1

\* the checkpoint of epoch 1 has been written
C9_Witness ==
  /\ pc = "test" /\ epoch = 1
  /\ <<run_id, 1>> \in DOMAIN files

RECURSIVE Pow10(_)
Pow10(n) == IF n = 0 THEN 1 ELSE 10 * Pow10(n - 1)

\* C10 (as claimed): in a run from scratch the scheduler has been stepped
\* once per epoch started and the train pass of epoch E runs at
\* lr * 0.1^floor(E / 10).
C10_TrainRate ==
  (resume_epoch = 0 /\ pc = "batch" /\ phase = "train") =>
    /\ scheduler.last_epoch = epoch + 1
    /\ optimizer.lr * Pow10(epoch \div 10) = lr

====
